---- MODULE Spec2Model ----
(***************************************************************************)
(* Model of app.py: the password gate, the height/volume conversion of the *)
(* reservoir form, and the save button that appends to the remote sheet.   *)
(*                                                                         *)
(* Python floats are IEEE-754 binary64.  A non-negative float is modelled  *)
(* exactly as <<m, e>>, value m * 2^e, with m a natural number of exactly  *)
(* MantBits bits (or zero, written <<ZeroNat, 0>>).  Natural numbers that  *)
(* do not fit TLC's integers are sequences of limbs, least significant     *)
(* first, base 2^15.  The form only produces non-negative floats           *)
(* (number_input has min_value=0.0), so no sign is carried.                *)
(***************************************************************************)
EXTENDS Integers, Sequences, FiniteSets, TLC

----------------------------------------------------------------------------
(* Arbitrary-size naturals                                                  *)

Base == 2^15

ZeroNat == << >>

RECURSIVE BFromInt(_)
BFromInt(n) == IF n = 0 THEN << >> ELSE <<n % Base>> \o BFromInt(n \div Base)

Limb(a, i) == IF i <= Len(a) THEN a[i] ELSE 0

RECURSIVE BNorm(_)
BNorm(a) ==
    IF Len(a) = 0 THEN a
    ELSE IF a[Len(a)] = 0 THEN BNorm(SubSeq(a, 1, Len(a) - 1)) ELSE a

RECURSIVE BAddC(_, _, _, _)
BAddC(a, b, i, c) ==
    IF i > Len(a) /\ i > Len(b)
    THEN (IF c = 0 THEN << >> ELSE <<c>>)
    ELSE LET s == Limb(a, i) + Limb(b, i) + c
         IN  <<s % Base>> \o BAddC(a, b, i + 1, s \div Base)

BAdd(a, b) == BAddC(a, b, 1, 0)

\* a - b for a >= b
RECURSIVE BSubC(_, _, _, _)
BSubC(a, b, i, c) ==
    IF i > Len(a) THEN << >>
    ELSE LET s == Limb(a, i) - Limb(b, i) - c
         IN  IF s < 0 THEN <<s + Base>> \o BSubC(a, b, i + 1, 1)
                      ELSE <<s>> \o BSubC(a, b, i + 1, 0)

BSub(a, b) == BNorm(BSubC(a, b, 1, 0))

\* -1, 0, 1 as a < b, a = b, a > b (a, b normalised)
RECURSIVE BCmpFrom(_, _, _)
BCmpFrom(a, b, i) ==
    IF i = 0 THEN 0
    ELSE IF a[i] < b[i] THEN -1
    ELSE IF a[i] > b[i] THEN 1
    ELSE BCmpFrom(a, b, i - 1)

BCmp(a, b) ==
    IF Len(a) < Len(b) THEN -1
    ELSE IF Len(a) > Len(b) THEN 1
    ELSE BCmpFrom(a, b, Len(a))

\* a * k for 0 <= k < Base
RECURSIVE BMulSmallC(_, _, _, _)
BMulSmallC(a, k, i, c) ==
    IF i > Len(a)
    THEN (IF c = 0 THEN << >> ELSE <<c>>)
    ELSE LET s == a[i] * k + c
         IN  <<s % Base>> \o BMulSmallC(a, k, i + 1, s \div Base)

BMulSmall(a, k) == IF k = 0 THEN << >> ELSE BMulSmallC(a, k, 1, 0)

BShlLimbs(a, n) == IF Len(a) = 0 THEN a ELSE [j \in 1..n |-> 0] \o a

RECURSIVE BMulFrom(_, _, _)
BMulFrom(a, b, i) ==
    IF i > Len(b) THEN << >>
    ELSE BAdd(BShlLimbs(BMulSmall(a, b[i]), i - 1), BMulFrom(a, b, i + 1))

BMul(a, b) == BMulFrom(a, b, 1)

\* <<quotient, remainder>> of a by d, 0 < d < Base; i runs from the top limb
RECURSIVE BDivSmallC(_, _, _, _)
BDivSmallC(a, d, i, r) ==
    IF i = 0 THEN << << >>, r >>
    ELSE LET cur  == r * Base + a[i]
             rest == BDivSmallC(a, d, i - 1, cur % d)
         IN  << Append(rest[1], cur \div d), rest[2] >>

BDivSmall(a, d) == BNorm(BDivSmallC(a, d, Len(a), 0)[1])

BModSmall(a, d) == BDivSmallC(a, d, Len(a), 0)[2]

BShl(a, n) == BShlLimbs(BMulSmall(a, 2^(n % 15)), n \div 15)

BShr(a, n) ==
    IF n \div 15 >= Len(a) THEN << >>
    ELSE BDivSmall(SubSeq(a, (n \div 15) + 1, Len(a)), 2^(n % 15))

RECURSIVE IntBitLen(_)
IntBitLen(n) == IF n = 0 THEN 0 ELSE 1 + IntBitLen(n \div 2)

BBitLen(a) == IF Len(a) = 0 THEN 0 ELSE 15 * (Len(a) - 1) + IntBitLen(a[Len(a)])

BIsOdd(a) == Len(a) > 0 /\ a[1] % 2 = 1

BOne == <<1>>

----------------------------------------------------------------------------
(* binary64 arithmetic, round to nearest, ties to even                      *)

MantBits == 53

FZero == <<ZeroNat, 0>>

\* round half to even: q = M \div 2^sh is raised when the bits dropped, r,
\* exceed half = 2^(sh-1), or equal it with q odd
RoundUp(q, r, half) == BCmp(r, half) = 1 \/ (BCmp(r, half) = 0 /\ BIsOdd(q))

\* M / 2^sh rounded to the nearest natural, ties to even; q = M \div 2^sh
RoundedShr(M, sh, q) ==
    IF RoundUp(q, BSub(M, BShl(q, sh)), BShl(BOne, sh - 1))
    THEN BAdd(q, BOne)
    ELSE q

\* a rounded mantissa that carried into one more bit is halved
Renorm(q, E) ==
    IF BBitLen(q) > MantBits THEN <<BShr(q, 1), E + 1>> ELSE <<q, E>>

\* M of L bits
RoundBits(M, L, E) ==
    IF L = 0 THEN FZero
    ELSE IF L <= MantBits THEN <<BShl(M, MantBits - L), E - (MantBits - L)>>
    ELSE Renorm(RoundedShr(M, L - MantBits, BShr(M, L - MantBits)), E + (L - MantBits))

\* the float nearest to M * 2^E (M any natural), ties to even
RoundNorm(M, E) == RoundBits(M, BBitLen(M), E)

Min(a, b) == IF a <= b THEN a ELSE b

\* the mantissas of x and y over their common (smaller) exponent
AlignExp(x, y) == IF Len(x[1]) = 0 THEN y[2]
                  ELSE IF Len(y[1]) = 0 THEN x[2]
                  ELSE Min(x[2], y[2])
AlignedM(x, e) == IF Len(x[1]) = 0 THEN ZeroNat ELSE BShl(x[1], x[2] - e)

FCmp(x, y) == LET e == AlignExp(x, y) IN BCmp(AlignedM(x, e), AlignedM(y, e))
FLe(x, y) == FCmp(x, y) <= 0
FLt(x, y) == FCmp(x, y) < 0

FAdd(x, y) == LET e == AlignExp(x, y)
              IN  RoundNorm(BAdd(AlignedM(x, e), AlignedM(y, e)), e)

\* x - y for x >= y
FSub(x, y) == LET e == AlignExp(x, y)
              IN  RoundNorm(BSub(AlignedM(x, e), AlignedM(y, e)), e)

FMul(x, y) == RoundNorm(BMul(x[1], y[1]), x[2] + y[2])

FMin(x, y) == IF FLt(y, x) THEN y ELSE x

\* int -> float
FromInt(n) == RoundNorm(BFromInt(n), 0)

\* the power of two p with y = 2^p, for y a power of two
Pow2Exp(y) == y[2] + MantBits - 1

\* x / y for y a power of two (the form only ever divides by the literal 0.5):
\* exact, the mantissa is kept and the exponent lowered
FDivPow2(x, y) == IF Len(x[1]) = 0 THEN FZero ELSE <<x[1], x[2] - Pow2Exp(y)>>

\* C fmod(x, y) for y a power of two: the exact remainder
FMod(x, y) ==
    IF Len(x[1]) = 0 \/ x[2] >= Pow2Exp(y) THEN FZero
    ELSE LET k == Pow2Exp(y) - x[2]
         IN  RoundNorm(BSub(x[1], BShl(BShr(x[1], k), k)), x[2])

\* C floor(x), x >= 0
FFloor(x) == IF x[2] >= 0 THEN x ELSE RoundNorm(BShr(x[1], 0 - x[2]), 0)

\* the float nearest to N / (D * 2^70): quotient, and a sticky bit for the
\* remainder
FromQuotient(N, D) ==
    RoundNorm(BAdd(BMulSmall(BDivSmall(N, D), 2),
                   IF BModSmall(N, D) = 0 THEN ZeroNat ELSE BOne),
              0 - 71)

\* the float nearest to the decimal K / D (K a natural, 0 < D < Base): how a
\* literal such as 8.5 or a typed 6.4 becomes a float
FromDec(K, D) == FromQuotient(BShl(K, 70), D)

Dec(k) == FromDec(BFromInt(k), 100)

\* the integer nearest to M * 2^e, ties to even
NearestInt(M, e) ==
    IF e >= 0 THEN BShl(M, e) ELSE RoundedShr(M, 0 - e, BShr(M, 0 - e))

\* the integer nearest to x * 100, ties to even (x taken exactly)
Hundredths(x) == NearestInt(BMulSmall(x[1], 100), x[2])

\* Python round(x, 2): the decimal with two places nearest to x, read back
Round2(x) == FromDec(Hundredths(x), 100)

Half == FromDec(BFromInt(5), 10)

\* CPython float_divmod, the end: floordiv = floor(div), raised by one when
\* div - floordiv > 0.5
FloorAdjusted(div, floordiv) ==
    IF Len(div[1]) = 0 THEN FZero
    ELSE IF FLt(Half, FSub(div, floordiv)) THEN FAdd(floordiv, FromInt(1))
    ELSE floordiv

FloorOf(div) == FloorAdjusted(div, FFloor(div))

\* Python x // y for floats (CPython float_divmod: mod = fmod(x, y),
\* div = (x - mod) / y), x >= 0, y a power of two
FFloorDiv(x, y) == FloorOf(FDivPow2(FSub(x, FMod(x, y)), y))

----------------------------------------------------------------------------
(* Section 3 of app.py: data constants                                      *)

\* the dict literal, as <<key in hundredths, volume>>
HeightVolumeItems ==
    << <<0, 0>>, <<50, 4027>>, <<100, 11655>>, <<150, 27344>>, <<200, 53448>>,
       <<250, 88216>>, <<300, 126617>>, <<350, 166744>>, <<400, 208327>>,
       <<450, 251136>>, <<500, 295066>>, <<550, 340074>>, <<600, 386135>>,
       <<650, 433278>>, <<700, 481569>>, <<750, 531074>>, <<800, 581888>>,
       <<850, 634177>> >>

\* the dict: float key -> int volume; a key outside DOMAIN raises KeyError
HEIGHT_VOLUME ==
    [key \in {Dec(HeightVolumeItems[i][1]) : i \in 1..Len(HeightVolumeItems)} |->
        LET i == CHOOSE j \in 1..Len(HeightVolumeItems) :
                     Dec(HeightVolumeItems[j][1]) = key
        IN  HeightVolumeItems[i][2]]

SEA_LEVEL_ZERO == Dec(5000)
MAX_RELATIVE_HEIGHT == Dec(850)
MAX_ABSOLUTE_HEIGHT == FAdd(SEA_LEVEL_ZERO, MAX_RELATIVE_HEIGHT)

----------------------------------------------------------------------------
(* Section 4 of app.py: validity check and calculation                      *)

\* a name the script has not bound
Unset == << >>

\* line 101: the st.error text names 0, MAX_RELATIVE_HEIGHT, SEA_LEVEL_ZERO and
\* MAX_ABSOLUTE_HEIGHT
RangeMessage == <<FZero, MAX_RELATIVE_HEIGHT, SEA_LEVEL_ZERO, MAX_ABSOLUTE_HEIGHT>>

NoMessage == << >>

\* faulty variant: the relative window excludes its upper end (< for <=)
RangeCheckStrict(user_input) ==
    IF FLe(FZero, user_input) /\ FLt(user_input, MAX_RELATIVE_HEIGHT)
    THEN [is_valid |-> TRUE,
          selected_height |-> user_input,
          above_sea_level |-> FAdd(SEA_LEVEL_ZERO, user_input),
          range_error |-> NoMessage]
    ELSE IF FLe(SEA_LEVEL_ZERO, user_input) /\ FLe(user_input, MAX_ABSOLUTE_HEIGHT)
    THEN [is_valid |-> TRUE,
          selected_height |-> FSub(user_input, SEA_LEVEL_ZERO),
          above_sea_level |-> user_input,
          range_error |-> NoMessage]
    ELSE [is_valid |-> FALSE,
          selected_height |-> FZero,
          above_sea_level |-> FZero,
          range_error |-> IF FLt(FZero, user_input) THEN RangeMessage ELSE NoMessage]

\* faulty variant: the absolute branch forgets to subtract SEA_LEVEL_ZERO
RangeCheckNoSubtract(user_input) ==
    IF FLe(FZero, user_input) /\ FLe(user_input, MAX_RELATIVE_HEIGHT)
    THEN [is_valid |-> TRUE,
          selected_height |-> user_input,
          above_sea_level |-> FAdd(SEA_LEVEL_ZERO, user_input),
          range_error |-> NoMessage]
    ELSE IF FLe(SEA_LEVEL_ZERO, user_input) /\ FLe(user_input, MAX_ABSOLUTE_HEIGHT)
    THEN [is_valid |-> TRUE,
          selected_height |-> user_input,
          above_sea_level |-> user_input,
          range_error |-> NoMessage]
    ELSE [is_valid |-> FALSE,
          selected_height |-> FZero,
          above_sea_level |-> FZero,
          range_error |-> IF FLt(FZero, user_input) THEN RangeMessage ELSE NoMessage]

\* faulty variant: the message is shown only above the absolute window
RangeCheckSilent(user_input) ==
    IF FLe(FZero, user_input) /\ FLe(user_input, MAX_RELATIVE_HEIGHT)
    THEN [is_valid |-> TRUE,
          selected_height |-> user_input,
          above_sea_level |-> FAdd(SEA_LEVEL_ZERO, user_input),
          range_error |-> NoMessage]
    ELSE IF FLe(SEA_LEVEL_ZERO, user_input) /\ FLe(user_input, MAX_ABSOLUTE_HEIGHT)
    THEN [is_valid |-> TRUE,
          selected_height |-> FSub(user_input, SEA_LEVEL_ZERO),
          above_sea_level |-> user_input,
          range_error |-> NoMessage]
    ELSE [is_valid |-> FALSE,
          selected_height |-> FZero,
          above_sea_level |-> FZero,
          range_error |-> IF FLt(MAX_ABSOLUTE_HEIGHT, user_input)
                          THEN RangeMessage ELSE NoMessage]

\* lines 85-102: is_valid, selected_height, above_sea_level, and the range
\* error message shown (NoMessage when none is)
RangeCheck(user_input) ==
    IF FLe(FZero, user_input) /\ FLe(user_input, MAX_RELATIVE_HEIGHT)
    THEN [is_valid |-> TRUE,
          selected_height |-> user_input,
          above_sea_level |-> FAdd(SEA_LEVEL_ZERO, user_input),
          range_error |-> NoMessage]
    ELSE IF FLe(SEA_LEVEL_ZERO, user_input) /\ FLe(user_input, MAX_ABSOLUTE_HEIGHT)
    THEN [is_valid |-> TRUE,
          selected_height |-> FSub(user_input, SEA_LEVEL_ZERO),
          above_sea_level |-> user_input,
          range_error |-> NoMessage]
    ELSE [is_valid |-> FALSE,
          selected_height |-> FZero,
          above_sea_level |-> FZero,
          range_error |-> IF FLt(FZero, user_input) THEN RangeMessage ELSE NoMessage]

\* line 107
LowerStep(selected_height) == Round2(FMul(FFloorDiv(selected_height, Half), Half))

\* faulty variant: the step above is not capped at 8.5
UpperStepNoMin(lower_step) == Round2(FAdd(lower_step, Half))

\* line 108
UpperStep(lower_step) == Round2(FMin(FAdd(lower_step, Half), Dec(850)))

\* faulty variant: the distance is divided by 0.25
FractionQuarter(selected_height, lower_step) ==
    FDivPow2(FSub(selected_height, lower_step), Dec(25))

\* line 115
Fraction(selected_height, lower_step) ==
    FDivPow2(FSub(selected_height, lower_step), Half)

\* faulty variant: the interpolation starts from the upper volume
InterpolatedFromUpper(lower_volume, upper_volume, fraction) ==
    FAdd(FromInt(upper_volume), FMul(FromInt(upper_volume - lower_volume), fraction))

\* faulty variant: the fraction multiplies the upper volume, not the difference
InterpolatedNoDelta(lower_volume, upper_volume, fraction) ==
    FAdd(FromInt(lower_volume), FMul(FromInt(upper_volume), fraction))

\* line 116
Interpolated(lower_volume, upper_volume, fraction) ==
    FAdd(FromInt(lower_volume), FMul(FromInt(upper_volume - lower_volume), fraction))

----------------------------------------------------------------------------
(* Bounds of the model                                                      *)

\* heights are typed with two decimals (number_input step=0.01): 0.00 .. MaxTyped/100
MaxTyped == 5900

\* rows the remote sheet holds at most
MaxRows == 2

\* pairs of heights are drawn from 0.00 .. MaxPairTyped/100 (the relative
\* window and a little beyond it)
MaxPairTyped == 860

Typed == 0..MaxTyped

\* the heights typed in the full application model
AppTyped == {0, 640, 850, 851, 5640, 5851}

\* what the number_input widget returns for the typed decimal k / 100
Widget(k) == Dec(k)

----------------------------------------------------------------------------
(* Section 1 of app.py: the password gate                                   *)

\* "general" not in st.secrets
NoGeneral == "<no general section>"

\* a key absent from st.session_state
Absent == "<absent>"

ConfiguredPasswords == {"open"}

\* what a user may type into the password field ("" is the empty field)
Entries == {"open", "bad", "worse", ""}

VARIABLES
    secrets,           \* st.secrets["general"]["password"], or NoGeneral
    session_password,  \* st.session_state["password"], or Absent
    password_correct,  \* st.session_state["password_correct"]: "True", "False" or Absent
    last_entry,        \* history: the most recent password entry, Absent before any
    typed,             \* the decimal in the height field, in hundredths
    user_input,        \* line 82
    gate,              \* the last run: "passed" the gate, "stopped" at st.stop(), "none"
    is_valid,          \* line 85
    selected_height,   \* line 86
    above_sea_level,   \* line 87
    range_error,       \* the message of line 101, NoMessage when not shown
    lower_step,        \* line 107
    upper_step,        \* line 108
    fraction,          \* line 115
    cumulative_volume, \* lines 113, 116
    key_error,         \* lines 109-110 raised KeyError and the run ended there
    clicked,           \* line 172: the button returned True in the last run
    save_result,       \* line 176: "saved", "failed", or "none" when not called
    sheet,             \* rows of WaterLevelDB.sheet1, oldest first
    history_read,      \* line 186 was reached in the last run
    stage,             \* position of the conversion-only specifications
    pending,           \* second height of a pair, in hundredths
    first,             \* the Reading of the first run of a pair
    readings           \* history: the Readings of the earlier runs of a sweep

gateVars == <<secrets, session_password, password_correct, last_entry>>
runVars  == <<gate, is_valid, selected_height, above_sea_level, range_error,
              lower_step, upper_step, fraction, cumulative_volume, key_error,
              clicked, save_result, history_read>>
pairVars == <<stage, pending, first, readings>>
vars     == <<gateVars, typed, user_input, runVars, sheet, pairVars>>

\* lines 11-30: check_password() for the given secrets and session flag
check_password(sec, pcorrect) ==
    IF sec = NoGeneral THEN TRUE
    ELSE IF pcorrect = Absent THEN FALSE
    ELSE IF pcorrect # "True" THEN FALSE
    ELSE TRUE

\* lines 22-26: the password field is drawn exactly when the gate does not pass
PasswordFieldShown(sec, pcorrect) == ~check_password(sec, pcorrect)

\* faulty variant: any entry is taken for the password
password_entered_any(sec, entry) == <<"True", Absent>>

\* lines 15-20: password_entered(), as <<password_correct, password>> afterwards
password_entered(sec, entry) ==
    IF entry = sec THEN <<"True", Absent>> ELSE <<"False", entry>>

\* faulty variant: the two heights change places in the row
RowSwapped(level, abs_level, volume) ==
    [level |-> abs_level, abs_level |-> level, volume |-> volume]

\* lines 44-52: the row save_to_google_sheet appends (the timestamp column is
\* left out: no claim reads it)
Row(level, abs_level, volume) ==
    [level |-> level, abs_level |-> abs_level, volume |-> volume]

\* line 82: value=6.4
DefaultTyped == 640

\* the run ended at st.stop() (line 33): nothing below it is bound or drawn
Stopped ==
    /\ gate' = "stopped"
    /\ is_valid' = FALSE
    /\ selected_height' = Unset
    /\ above_sea_level' = Unset
    /\ range_error' = NoMessage
    /\ lower_step' = Unset
    /\ upper_step' = Unset
    /\ key_error' = FALSE
    /\ fraction' = Unset
    /\ cumulative_volume' = Unset
    /\ clicked' = FALSE
    /\ save_result' = "none"
    /\ history_read' = FALSE
    /\ sheet' = sheet

\* lines 74-198, the gate passed, on widget value u, statement by statement.
\* click: the save button was pressed; append_ok: sheet.append_row succeeds.
Body(u, click, append_ok) ==
    /\ gate' = "passed"
    /\ is_valid' = RangeCheck(u).is_valid
    /\ selected_height' = RangeCheck(u).selected_height
    /\ above_sea_level' = RangeCheck(u).above_sea_level
    /\ range_error' = RangeCheck(u).range_error
    /\ lower_step' = IF is_valid' THEN LowerStep(selected_height') ELSE Unset
    /\ upper_step' = IF is_valid' THEN UpperStep(lower_step') ELSE Unset
    /\ key_error' = (is_valid' /\ (\/ lower_step' \notin DOMAIN HEIGHT_VOLUME
                                   \/ upper_step' \notin DOMAIN HEIGHT_VOLUME))
    /\ fraction' = IF is_valid' /\ ~key_error' /\ upper_step' # lower_step'
                   THEN Fraction(selected_height', lower_step')
                   ELSE Unset
    /\ cumulative_volume' =
           IF ~is_valid' \/ key_error' THEN Unset
           ELSE IF upper_step' = lower_step' THEN FromInt(HEIGHT_VOLUME[lower_step'])
           ELSE Interpolated(HEIGHT_VOLUME[lower_step'], HEIGHT_VOLUME[upper_step'],
                             fraction')
    /\ clicked' = (is_valid' /\ ~key_error' /\ click)
    /\ save_result' = IF ~clicked' THEN "none"
                      ELSE IF append_ok THEN "saved" ELSE "failed"
    /\ sheet' = IF clicked' /\ append_ok
                THEN Append(sheet, Row(selected_height', above_sea_level',
                                       cumulative_volume'))
                ELSE sheet
    /\ history_read' = ~key_error'

\* One run of the script, lines 32-198, on session flag pcorrect and widget
\* value u
ScriptRun(pcorrect, u, click, append_ok) ==
    IF check_password(secrets, pcorrect)
    THEN Body(u, click, append_ok)
    ELSE Stopped

\* no run has happened yet
NotRun ==
    /\ gate = "none"
    /\ is_valid = FALSE
    /\ selected_height = Unset
    /\ above_sea_level = Unset
    /\ range_error = NoMessage
    /\ lower_step = Unset
    /\ upper_step = Unset
    /\ fraction = Unset
    /\ cumulative_volume = Unset
    /\ key_error = FALSE
    /\ clicked = FALSE
    /\ save_result = "none"
    /\ history_read = FALSE
    /\ sheet = << >>

----------------------------------------------------------------------------
(* The application: a browser session of the script                         *)

\* a new session: empty session state, the default height, no run yet
Init ==
    /\ secrets \in ConfiguredPasswords \cup {NoGeneral}
    /\ session_password = Absent
    /\ password_correct = Absent
    /\ last_entry = Absent
    /\ typed = DefaultTyped
    /\ user_input = Widget(DefaultTyped)
    /\ NotRun
    /\ stage = "app"
    /\ pending = 0
    /\ first = Unset
    /\ readings = << >>

\* the page is opened: the first run of the script
Load ==
    /\ stage = "app"
    /\ gate = "none"
    /\ ScriptRun(password_correct, user_input, FALSE, FALSE)
    /\ UNCHANGED <<gateVars, typed, user_input, pairVars>>

\* lines 23/26 and 15-20: the user commits a new text in the password field;
\* on_change runs password_entered, then the script reruns
EnterPassword(entry) ==
    /\ stage = "app"
    /\ gate = "stopped"
    /\ PasswordFieldShown(secrets, password_correct)
    /\ entry # (IF session_password = Absent THEN "" ELSE session_password)
    /\ password_correct' = password_entered(secrets, entry)[1]
    /\ session_password' = password_entered(secrets, entry)[2]
    /\ last_entry' = entry
    /\ ScriptRun(password_correct', user_input, FALSE, FALSE)
    /\ UNCHANGED <<secrets, typed, user_input, pairVars>>

\* line 82: the user types another height; the script reruns
ChangeHeight(k) ==
    /\ stage = "app"
    /\ gate = "passed"
    /\ k # typed
    /\ typed' = k
    /\ user_input' = Widget(k)
    /\ ScriptRun(password_correct, user_input', FALSE, FALSE)
    /\ UNCHANGED <<gateVars, pairVars>>

\* line 172: the user presses the save button the last run drew; the script
\* reruns with the button True and append_row succeeds or raises
ClickSave(append_ok) ==
    /\ stage = "app"
    /\ gate = "passed"
    /\ is_valid
    /\ ~key_error
    /\ append_ok => Len(sheet) < MaxRows
    /\ ScriptRun(password_correct, user_input, TRUE, append_ok)
    /\ UNCHANGED <<gateVars, typed, user_input, pairVars>>

\* line 190: the user presses the download button, drawn when the sheet has
\* rows; the script reruns
ClickDownload ==
    /\ stage = "app"
    /\ history_read
    /\ Len(sheet) > 0
    /\ ScriptRun(password_correct, user_input, FALSE, FALSE)
    /\ UNCHANGED <<gateVars, typed, user_input, pairVars>>

Next ==
    \/ Load
    \/ \E entry \in Entries : EnterPassword(entry)
    \/ \E k \in AppTyped : ChangeHeight(k)
    \/ \E append_ok \in BOOLEAN : ClickSave(append_ok)
    \/ ClickDownload

Spec == Init /\ [][Next]_vars

----------------------------------------------------------------------------
(* The conversion alone: one run of lines 82-116 on every typed height      *)

InitConv ==
    /\ secrets = NoGeneral
    /\ session_password = Absent
    /\ password_correct = Absent
    /\ last_entry = Absent
    /\ typed \in Typed
    /\ user_input = Widget(typed)
    /\ NotRun
    /\ stage = "one"
    /\ pending = 0
    /\ first = Unset
    /\ readings = << >>

Convert ==
    /\ stage = "one"
    /\ ScriptRun(password_correct, user_input, FALSE, FALSE)
    /\ stage' = "done"
    /\ UNCHANGED <<gateVars, typed, user_input, pending, first, readings>>

NextConv == Convert

SpecConv == InitConv /\ [][NextConv]_vars

----------------------------------------------------------------------------
(* Two runs, on a relative height and on its absolute form                  *)

PairTyped == 0..MaxPairTyped

\* line 70, in hundredths
SeaLevelTyped == 5000

\* the Reading of the run just made
Reading ==
    [user_input |-> user_input, is_valid |-> is_valid,
     selected_height |-> selected_height, above_sea_level |-> above_sea_level,
     cumulative_volume |-> cumulative_volume]

InitPair ==
    /\ secrets = NoGeneral
    /\ session_password = Absent
    /\ password_correct = Absent
    /\ last_entry = Absent
    /\ typed \in PairTyped
    /\ pending = typed + SeaLevelTyped
    /\ user_input = Widget(typed)
    /\ NotRun
    /\ stage = "pair"
    /\ first = Unset
    /\ readings = << >>

ConvertFirst ==
    /\ stage = "pair"
    /\ ScriptRun(password_correct, user_input, FALSE, FALSE)
    /\ stage' = "first"
    /\ UNCHANGED <<gateVars, typed, user_input, pending, first, readings>>

ConvertSecond ==
    /\ stage = "first"
    /\ first' = Reading
    /\ typed' = pending
    /\ user_input' = Widget(pending)
    /\ ScriptRun(password_correct, user_input', FALSE, FALSE)
    /\ stage' = "second"
    /\ UNCHANGED <<gateVars, pending, readings>>

NextPair == ConvertFirst \/ ConvertSecond

SpecPair == InitPair /\ [][NextPair]_vars

----------------------------------------------------------------------------
(* A sweep: the height is raised one hundredth at a time from 0.00, and     *)
(* every Reading shown on the way is kept                                   *)

InitSweep ==
    /\ secrets = NoGeneral
    /\ session_password = Absent
    /\ password_correct = Absent
    /\ last_entry = Absent
    /\ typed = 0
    /\ pending = 0
    /\ user_input = Widget(typed)
    /\ NotRun
    /\ stage = "sweep"
    /\ first = Unset
    /\ readings = << >>

SweepFirst ==
    /\ stage = "sweep"
    /\ gate = "none"
    /\ ScriptRun(password_correct, user_input, FALSE, FALSE)
    /\ UNCHANGED <<gateVars, typed, user_input, pairVars>>

SweepNext ==
    /\ stage = "sweep"
    /\ gate = "passed"
    /\ typed < MaxPairTyped
    /\ readings' = Append(readings, Reading)
    /\ typed' = typed + 1
    /\ user_input' = Widget(typed')
    /\ ScriptRun(password_correct, user_input', FALSE, FALSE)
    /\ UNCHANGED <<gateVars, stage, pending, first>>

NextSweep == SweepFirst \/ SweepNext

SpecSweep == InitSweep /\ [][NextSweep]_vars

----------------------------------------------------------------------------
(* Properties                                                               *)

\* the two windows of the form, as the decimals the documentation gives
InRelativeWindow(x) == FLe(FZero, x) /\ FLe(x, Dec(850))
InAbsoluteWindow(x) == FLe(Dec(5000), x) /\ FLe(x, Dec(5850))

\* a conversion-only run has been made
Converted == stage = "done" /\ gate = "passed"

\* C1: every input h with 0.0 <= h <= 8.5 is accepted, and the Reading has
\* relative height h and absolute height h + 50.0.
C1_RelativeWindow ==
    (Converted /\ InRelativeWindow(user_input)) =>
        /\ is_valid
        /\ range_error = NoMessage
        /\ selected_height = user_input
        /\ above_sea_level = FAdd(user_input, Dec(5000))

C1_Witness ==
    /\ Converted
    /\ user_input = Dec(640)
    /\ is_valid
    /\ selected_height = Dec(640)
    /\ above_sea_level = Dec(5640)

\* C2: every input a with 50.0 <= a <= 58.5 is accepted, and the Reading has
\* absolute height a and relative height a - 50.0, so that absolute height =
\* relative height + 50.0.
C2_AbsoluteWindow ==
    (Converted /\ InAbsoluteWindow(user_input)) =>
        /\ is_valid
        /\ range_error = NoMessage
        /\ above_sea_level = user_input
        /\ selected_height = FSub(user_input, Dec(5000))
        /\ above_sea_level = FAdd(selected_height, Dec(5000))

C2_Witness ==
    /\ Converted
    /\ user_input = Dec(5850)
    /\ is_valid
    /\ selected_height = Dec(850)
    /\ above_sea_level = Dec(5850)

C4_StepsInTable ==
    (Converted /\ is_valid) =>
        /\ lower_step \in DOMAIN HEIGHT_VOLUME
        /\ upper_step \in DOMAIN HEIGHT_VOLUME
        /\ ~key_error
        /\ cumulative_volume # Unset

C4_Witness ==
    /\ Converted
    /\ is_valid
    /\ user_input = Dec(5849)
    /\ lower_step = Dec(800)
    /\ upper_step = Dec(850)
    /\ ~key_error

\* C5: a relative height exactly on a calibration step gets the table's
\* value at that step exactly; at 8.5 upper_step = lower_step and the volume
\* is 634177, at 0.0 the volume is 0.
C5_ExactOnSteps ==
    (Converted /\ is_valid) =>
        /\ \A i \in 1..Len(HeightVolumeItems) :
               selected_height = Dec(HeightVolumeItems[i][1]) =>
                   cumulative_volume = FromInt(HeightVolumeItems[i][2])
        /\ selected_height = Dec(850) =>
               upper_step = lower_step /\ cumulative_volume = FromInt(634177)
        /\ selected_height = FZero => cumulative_volume = FromInt(0)

C5_Witness ==
    /\ Converted
    /\ is_valid
    /\ user_input = Dec(600)
    /\ fraction = FZero
    /\ cumulative_volume = FromInt(386135)

\* C6: the volume is non-decreasing in the relative height: every Reading
\* shown earlier in the sweep, for a lower height, has a volume less than or
\* equal to the present one.
C6_Monotone ==
    (stage = "sweep" /\ is_valid) =>
        \A i \in 1..Len(readings) :
            (readings[i].is_valid
                /\ FLt(readings[i].selected_height, selected_height)) =>
                    FLe(readings[i].cumulative_volume, cumulative_volume)

C6_Witness ==
    /\ stage = "sweep"
    /\ is_valid
    /\ typed = 651
    /\ Len(readings) = 651
    /\ readings[650].user_input = Dec(649)
    /\ FLt(readings[650].cumulative_volume, cumulative_volume)

\* C7: entering the absolute form h + 50.0 gives the identical Reading
\* (relative height, absolute height, volume) as entering the relative form h.
C7_SameReading ==
    (stage = "second" /\ first.is_valid /\ InRelativeWindow(first.user_input)) =>
        /\ is_valid
        /\ selected_height = first.selected_height
        /\ above_sea_level = first.above_sea_level
        /\ cumulative_volume = first.cumulative_volume

\* the calibration steps below and above the i-th interval, and their volumes
StepBelow(i) == Dec(HeightVolumeItems[i][1])
StepAbove(i) == Dec(HeightVolumeItems[i + 1][1])
VolumeBelow(i) == HeightVolumeItems[i][2]
VolumeAbove(i) == HeightVolumeItems[i + 1][2]

\* the general part of C8, for an accepted relative height below the last step
C8_Interval ==
    (Converted /\ is_valid /\ FLt(selected_height, Dec(850))) =>
        \E i \in 1..(Len(HeightVolumeItems) - 1) :
            /\ lower_step = StepBelow(i)
            /\ FLe(lower_step, selected_height)
            /\ FLt(selected_height, StepAbove(i))
            /\ upper_step = FAdd(lower_step, Dec(50))
            /\ FLe(FZero, fraction)
            /\ FLt(fraction, FromInt(1))
            /\ FAdd(lower_step, FMul(fraction, Dec(50))) = selected_height
            /\ cumulative_volume =
                   FAdd(FromInt(VolumeBelow(i)),
                        FMul(FromInt(VolumeAbove(i) - VolumeBelow(i)), fraction))
            /\ FLe(FromInt(VolumeBelow(i)), cumulative_volume)
            /\ FLe(cumulative_volume, FromInt(VolumeAbove(i)))

\* h = 6.4: lower_step 6.0, upper_step 6.5, fraction 0.8 (to four decimals)
C8_ExampleSteps ==
    (Converted /\ user_input = Dec(640)) =>
        /\ lower_step = Dec(600)
        /\ upper_step = Dec(650)
        /\ FLe(FromDec(BFromInt(7999), 10000), fraction)
        /\ FLe(fraction, FromDec(BFromInt(8001), 10000))

\* C8 as stated: ... and h = 6.4 gives the volume 423799.6 (to one decimal).
C8_AsStated ==
    /\ C8_Interval
    /\ C8_ExampleSteps
    /\ (Converted /\ user_input = Dec(640)) =>
           /\ FLe(FromDec(BFromInt(4237995), 10), cumulative_volume)
           /\ FLe(cumulative_volume, FromDec(BFromInt(4237997), 10))

\* C8, amended: for every accepted relative height h below the last step,
\* lower_step is the largest multiple of 0.5 not exceeding h, upper_step =
\* lower_step + 0.5, the fraction (h - lower_step) / 0.5 lies in [0, 1), and
\* the volume is lower_volume + (upper_volume - lower_volume) * fraction,
\* between lower_volume and upper_volume; h = 6.4 gives lower_step 6.0,
\* upper_step 6.5, fraction 0.8 and the volume 423849.4.
C8_Amended ==
    /\ C8_Interval
    /\ C8_ExampleSteps
    /\ (Converted /\ user_input = Dec(640)) =>
           cumulative_volume = FromDec(BFromInt(4238494), 10)

C8_Witness ==
    /\ Converted
    /\ user_input = Dec(640)
    /\ is_valid
    /\ lower_step = Dec(600)
    /\ upper_step = Dec(650)
    /\ cumulative_volume = FromDec(BFromInt(4238494), 10)

\* C9: a row is appended only in a run whose input was accepted and whose
\* save button was pressed, and it is that run's Reading; a run with a
\* rejected input or without the press appends nothing; a failed append
\* leaves the sheet and the computed Reading as they were.
C9_SaveOnlyOnClick ==
    [][ /\ (sheet' # sheet =>
               /\ gate' = "passed"
               /\ is_valid'
               /\ clicked'
               /\ save_result' = "saved"
               /\ sheet' = Append(sheet, [level |-> selected_height',
                                          abs_level |-> above_sea_level',
                                          volume |-> cumulative_volume']))
        /\ ((~is_valid' \/ ~clicked') => sheet' = sheet)
        /\ (save_result' = "failed" =>
               /\ sheet' = sheet
               /\ is_valid'
               /\ cumulative_volume' # Unset
               /\ selected_height' = selected_height
               /\ above_sea_level' = above_sea_level
               /\ cumulative_volume' = cumulative_volume)
      ]_vars

C9_Witness ==
    /\ save_result = "saved"
    /\ clicked
    /\ user_input = Dec(5640)
    /\ Len(sheet) = 2
    /\ sheet[1].level = Dec(640)
    /\ sheet[2].level = selected_height
    /\ sheet[2].abs_level = Dec(5640)
    /\ sheet[2].volume = cumulative_volume

\* C10: with a password configured, a run passes the gate only when the
\* session's password_correct is True, which holds only when the most recent
\* entry equalled the configured password; before any entry and after a wrong
\* entry the run stops at the gate, with no conversion, save or history read;
\* a correct entry removes the entered password from the session state.
\* With no password configured the gate always passes.
C10_PasswordGate ==
    /\ secrets # NoGeneral =>
        /\ gate = "passed" => password_correct = "True"
        /\ password_correct = "True" =>
               last_entry = secrets /\ session_password = Absent
        /\ (gate # "none" /\ last_entry # secrets) => gate = "stopped"
        /\ gate = "stopped" =>
               /\ ~is_valid
               /\ cumulative_volume = Unset
               /\ ~clicked
               /\ ~history_read
               /\ sheet = << >>
    /\ (secrets = NoGeneral /\ gate # "none") => gate = "passed"

C10_Witness ==
    /\ secrets = "open"
    /\ last_entry = "open"
    /\ password_correct = "True"
    /\ session_password = Absent
    /\ gate = "passed"
    /\ history_read
    /\ Len(sheet) = 1

====
